---- MODULE Spec2Model ----
(***************************************************************************)
(* A model of the dropbox-go client library: the OAuth Session            *)
(* (session.go) and the signed transport calls of the Client              *)
(* (client.go, client_util.go).                                           *)
(*                                                                         *)
(* Go pointers are modelled as sets of at most one element: the empty set *)
(* is the nil pointer, {v} points to the value v.  url.Values is a set of *)
(* <<key, value>> pairs (the library only ever calls Set, so there is one *)
(* value per key).  Strings that the code slices are sequences of         *)
(* one-character strings.                                                  *)
(***************************************************************************)
EXTENDS Integers, Sequences, FiniteSets, TLC

(* ---------------------------------------------------------------------- *)
(* Bounds                                                                  *)
(* ---------------------------------------------------------------------- *)

\* Number of distinct credential pairs the provider may hand out per kind.
NumCreds == 2

\* The count of successful GetAccessToken calls saturates at this value.
MaxCompletions == 2

\* Longest path given to filePath, in characters (besides "../../etc").
MaxPathLen == 4

(* ---------------------------------------------------------------------- *)
(* Values                                                                  *)
(* ---------------------------------------------------------------------- *)

Nil == {}

Ptr(v) == {v}

Deref(p) == CHOOSE v \in p : TRUE

\* Go error values: the nil error, errors.New(msg), *AuthorizationError
\* {Context, Cause} and *APIError {Code, Message}.
Error(kind, msg, context, code) ==
    [kind |-> kind, msg |-> msg, context |-> context, code |-> code]

NoErr == Error("nil", "", <<>>, 0)

ErrorString(msg) == Error("errorString", msg, <<>>, 0)

ErrNoRequestToken == ErrorString("no request token")

ErrNotAuthorized == ErrorString("session not authorized")

\* An error returned by the HTTP client or the OAuth provider.
ErrTransport == ErrorString("transport error")

\* The error of url.Parse inside http.NewRequest.
ErrBadURL == ErrorString("invalid URL escape")

AuthorizationError(context, cause) == Error("AuthorizationError", cause, context, 0)

APIError(code, message) == Error("APIError", message, <<>>, code)

\* io.EOF, what json.Decoder.Decode returns on an empty body.
ErrEOF == ErrorString("EOF")

\* The *json.SyntaxError of a body that is not JSON.
ErrSyntax == ErrorString("invalid character '<' looking for beginning of value")

PanicNilDeref == "invalid memory address or nil pointer dereference"

PanicNotAuthorized == "Session Not Authorized!"

APIHost == "api.dropbox.com"

WWWHost == "www.dropbox.com"

ContentHost == "api-content.dropbox.com"

Prefix == <<"/", "1">>

RequestURI ==
    [host |-> APIHost,
     path |-> Prefix \o <<"/", "o", "a", "u", "t", "h", "/", "r", "e", "q", "u", "e", "s", "t", "_", "t", "o", "k", "e", "n">>]

AuthorizationURI ==
    [host |-> WWWHost,
     path |-> Prefix \o <<"/", "o", "a", "u", "t", "h", "/", "a", "u", "t", "h", "o", "r", "i", "z", "e">>]

AccessURI ==
    [host |-> APIHost,
     path |-> Prefix \o <<"/", "o", "a", "u", "t", "h", "/", "a", "c", "c", "e", "s", "s", "_", "t", "o", "k", "e", "n">>]

\* Request (temporary) credential pairs the provider can return.
RequestCreds ==
    {[Token |-> "rt" \o ToString(i), Secret |-> "rs" \o ToString(i)] : i \in 1..NumCreds}

\* Access (token) credential pairs the provider can return.
AccessCreds ==
    {[Token |-> "at" \o ToString(i), Secret |-> "as" \o ToString(i)] : i \in 1..NumCreds}

NoCred == [Token |-> "", Secret |-> ""]

AppKeys == {"key1"}

AppSecrets == {"secret1"}

HTTPClients == {Nil, Ptr("customClient")}

Locales == {"", "en"}

Callbacks == {"", "http://app/cb"}

Verifiers == {"", "v1"}

Roots == {"dropbox", "sandbox"}

\* string(c.root) as characters.
RootChars(root) ==
    IF root = "dropbox"
    THEN <<"d", "r", "o", "p", "b", "o", "x">>
    ELSE <<"s", "a", "n", "d", "b", "o", "x">>

\* "../../etc"
DotDotEtc == <<".", ".", "/", ".", ".", "/", "e", "t", "c">>

RECURSIVE PathsOfLen(_)
PathsOfLen(n) ==
    IF n = 0 THEN {<<>>}
    ELSE {Append(q, ch) : q \in PathsOfLen(n - 1), ch \in {"/", ".", "e"}}

\* The paths filePath is given.
Paths == UNION {PathsOfLen(n) : n \in 0..MaxPathLen} \cup {DotDotEtc}

AccountInfoURL ==
    [host |-> APIHost,
     path |-> Prefix \o <<"/", "a", "c", "c", "o", "u", "n", "t", "/", "i", "n", "f", "o">>]

FilesPutURL ==
    [host |-> ContentHost,
     path |-> Prefix \o <<"/", "f", "i", "l", "e", "s", "_", "p", "u", "t">>]

MetadataURL ==
    [host |-> APIHost, path |-> Prefix \o <<"/", "m", "e", "t", "a", "d", "a", "t", "a">>]

FilesURL ==
    [host |-> ContentHost, path |-> Prefix \o <<"/", "f", "i", "l", "e", "s">>]

ChunkedUploadURL ==
    [host |-> ContentHost,
     path |-> Prefix \o <<"/", "c", "h", "u", "n", "k", "e", "d", "_",
                          "u", "p", "l", "o", "a", "d">>]

CommitChunkedUploadURL ==
    [host |-> ContentHost,
     path |-> Prefix \o <<"/", "c", "o", "m", "m", "i", "t", "_", "c", "h", "u", "n", "k",
                          "e", "d", "_", "u", "p", "l", "o", "a", "d">>]

\* urlStr + suffix
URLAppend(u, suffix) == [u EXCEPT !.path = @ \o suffix]

\* The URLs the transport calls are given: a fixed endpoint, and
\* FilesPutURL + filePath("%z") under root "sandbox", which url.Parse rejects.
TransportURLs ==
    {AccountInfoURL,
     URLAppend(FilesPutURL, <<"/", "s", "a", "n", "d", "b", "o", "x", "/", "%", "z">>)}

\* The parameter sets the transport calls are given.
ParamSets == {{}, {<<"rev", "r1">>}}

StatusOK == 200

StatusUnauthorized == 401

\* The status codes of the responses the server may send.
StatusNotModified == 304

StatusBadRequest == 400

Statuses == {StatusOK, StatusNotModified, StatusBadRequest, StatusUnauthorized}

\* The content of a response body: nothing, a JSON object (the set of its
\* <<key, value>> members), or bytes that are not JSON.  more tells whether the reader has
\* yet to report EOF once a JSON decoder has read its value (or met the
\* syntax error); an empty body reports EOF on the first read.
BodyContent(kind, fields, more) == [kind |-> kind, fields |-> fields, more |-> more]

EmptyBody == BodyContent("empty", {}, FALSE)

\* Bytes that are not JSON, such as an HTML error page.
GarbageBody == BodyContent("garbage", {}, TRUE)

\* {"error": "not found"}
ErrorFields == {<<"error", "not found">>}

\* {"error": "offset mismatch", "offset": 512}
OffsetFields == {<<"error", "offset mismatch">>, <<"offset", 512>>}

\* {"path": "/e", "rev": "r1"}
MetadataFields == {<<"path", "/e">>, <<"rev", "r1">>}

\* {"upload_id": "u1", "offset": 1024}
UploadFields == {<<"upload_id", "u1">>, <<"offset", 1024>>}

\* The response bodies parseJSON is given.
Bodies ==
    {EmptyBody, GarbageBody}
        \cup {BodyContent("object", f, more) :
                 f \in {ErrorFields, OffsetFields, MetadataFields, UploadFields,
                        {<<"error", "conflict">>, <<"code", 7>>}},
                 more \in BOOLEAN}

\* The paths PutFile is given: url.Parse rejects FilesPutURL + filePath("%z").
EndpointPaths == {<<"e">>, <<"%", "z">>}

Revs == {"", "r1"}

\* Metadata called with every optional argument left at its default, with
\* each one supplied alone, and with all of them supplied.
DefaultMetadataArgs ==
    [path |-> <<"e">>, fileLimit |-> 0, hash |-> "", list |-> TRUE, deleted |-> FALSE,
     rev |-> ""]

MetadataArgs ==
    {DefaultMetadataArgs,
     [DefaultMetadataArgs EXCEPT !.fileLimit = 25],
     [DefaultMetadataArgs EXCEPT !.hash = "h1"],
     [DefaultMetadataArgs EXCEPT !.list = FALSE],
     [DefaultMetadataArgs EXCEPT !.deleted = TRUE],
     [DefaultMetadataArgs EXCEPT !.rev = "r1"],
     [path |-> <<"e">>, fileLimit |-> 25, hash |-> "h1", list |-> FALSE, deleted |-> TRUE,
      rev |-> "r1"]}

UploadIds == {"", "u1"}

\* The types of the targets parseJSON decodes into: a **Metadata (&meta)
\* and a *ChunkedUpload (&state).
Shapes == {"Metadata", "ChunkedUpload"}

\* The value of the x-dropbox-metadata response header when it is not set.
NoHeader == BodyContent("empty", {}, FALSE)

(* ---------------------------------------------------------------------- *)
(* State                                                                   *)
(* ---------------------------------------------------------------------- *)

VARIABLES
    RequestToken,   \* Session.RequestToken  *Credentials
    AccessToken,    \* Session.AccessToken   *Credentials
    OauthClient,    \* Session.OauthClient   (endpoints and consumer credentials)
    HTTPClient,     \* Session.HTTPClient    *http.Client
    Locale,         \* Session.Locale
    client,         \* the *Client built on the Session by NewClient, or nil
    op,             \* the call that completed last
    args,           \* its arguments
    ret,            \* its (non-error) return value
    err,            \* its error return value
    outcome,        \* "return", or the panic value when the call panicked
    sent,           \* the network exchanges the call performed, in order
    params,         \* the caller's url.Values after a transport call
    body,           \* the body of the HTTP response the call received, or nil
    pre,            \* the Session's fields when the call started
    granted,        \* temporary-credential requests that succeeded since
                    \* construction or the last Reset
    completions     \* GetAccessToken calls that returned nil since construction
                    \* or the last Reset (saturating at MaxCompletions)

vars == <<RequestToken, AccessToken, OauthClient, HTTPClient, Locale, client,
          op, args, ret, err, outcome, sent, params, body, pre, granted,
          completions>>

\* The Session value the receiver s points to.
Self ==
    [RequestToken |-> RequestToken, AccessToken |-> AccessToken,
     OauthClient |-> OauthClient, HTTPClient |-> HTTPClient, Locale |-> Locale]

Returned == "return"

\* A call that returned: the Session it leaves, its results, the exchanges made.
Return(s, r, e, reqs) ==
    [s |-> s, ret |-> r, err |-> e, outcome |-> Returned, sent |-> reqs,
     params |-> {}, body |-> Nil]

\* A call that panicked with value v before changing anything.
Panic(s, v) ==
    [s |-> s, ret |-> Nil, err |-> NoErr, outcome |-> v, sent |-> <<>>,
     params |-> {}, body |-> Nil]

(* ---------------------------------------------------------------------- *)
(* url.Values                                                              *)
(* ---------------------------------------------------------------------- *)

Has(p, k) == \E kv \in p : kv[1] = k

Get(p, k) == IF Has(p, k) THEN (CHOOSE kv \in p : kv[1] = k)[2] ELSE ""

Set(p, k, v) == {kv \in p : kv[1] # k} \cup {<<k, v>>}

Keys(p) == {kv[1] : kv \in p}

(* ---------------------------------------------------------------------- *)
(* session.go                                                              *)
(* ---------------------------------------------------------------------- *)

fromOauth(c) == Ptr([Token |-> c.Token, Secret |-> c.Secret])

\* Only evaluated on a non-nil receiver; on nil the field read panics.
oauth(c) == Ptr([Token |-> Deref(c).Token, Secret |-> Deref(c).Secret])

DefaultClient == "http.DefaultClient"

sessionClient(s) ==
    IF s.HTTPClient # Nil THEN Deref(s.HTTPClient) ELSE DefaultClient

\* Mutation: the constructor drops the accessToken argument.
NewSessionMutant(appKey, appSecret, httpClient, accessToken) ==
    [RequestToken |-> Nil,
     AccessToken  |-> Nil,
     HTTPClient   |-> httpClient,
     Locale       |-> "",
     OauthClient  |-> [TemporaryCredentialRequestURI |-> RequestURI,
                       ResourceOwnerAuthorizationURI |-> AuthorizationURI,
                       TokenRequestURI               |-> AccessURI,
                       Credentials |-> [Token |-> appKey, Secret |-> appSecret]]]

NewSession(appKey, appSecret, httpClient, accessToken) ==
    [RequestToken |-> Nil,
     AccessToken  |-> accessToken,
     HTTPClient   |-> httpClient,
     Locale       |-> "",
     OauthClient  |-> [TemporaryCredentialRequestURI |-> RequestURI,
                       ResourceOwnerAuthorizationURI |-> AuthorizationURI,
                       TokenRequestURI               |-> AccessURI,
                       Credentials |-> [Token |-> appKey, Secret |-> appSecret]]]

\* Mutation: Reset forgets the request pair.
resetMutant(s) ==
    Return([s EXCEPT !.AccessToken = Nil], Nil, NoErr, <<>>)

reset(s) ==
    Return([s EXCEPT !.AccessToken = Nil, !.RequestToken = Nil], Nil, NoErr, <<>>)

\* Mutation: the presence test reads the wrong credential field.
AuthorizedMutant(s) == s.RequestToken # Nil

Authorized(s) == s.AccessToken # Nil

\* The exchange oauth.Client.RequestTemporaryCredentials(s.client(), "", nil)
\* performs: a POST to the temporary-credential endpoint signed with the
\* consumer credentials only.
TemporaryCredentialsRequest(s, reply) ==
    [kind |-> "temporary_credentials", method |-> "POST",
     uri |-> s.OauthClient.TemporaryCredentialRequestURI,
     consumer |-> s.OauthClient.Credentials,
     cred |-> Nil, verifier |-> "", params |-> {}, via |-> sessionClient(s),
     reply |-> reply]

\* The exchange oauth.Client.RequestToken(s.client(), cred, verifier) performs.
TokenRequest(s, cred, verifier, reply) ==
    [kind |-> "token", method |-> "POST",
     uri |-> s.OauthClient.TokenRequestURI,
     consumer |-> s.OauthClient.Credentials,
     cred |-> cred, verifier |-> verifier, params |-> {}, via |-> sessionClient(s),
     reply |-> reply]

\* What the provider may answer to a temporary-credential request.
TemporaryReplies ==
    {[err |-> ErrTransport, cred |-> NoCred]} \cup {[err |-> NoErr, cred |-> c] : c \in RequestCreds}

\* What the provider may answer to a token request.
TokenReplies ==
    {[err |-> ErrTransport, cred |-> NoCred]} \cup {[err |-> NoErr, cred |-> c] : c \in AccessCreds}

\* Mutation: the "already have a request pair" test is missing.
getRequestTokenMutant(s, reply) ==
    IF reply.err # NoErr
    THEN Return(s, Nil, reply.err, <<TemporaryCredentialsRequest(s, reply)>>)
    ELSE Return([s EXCEPT !.RequestToken = fromOauth(reply.cred)], Nil, NoErr,
                <<TemporaryCredentialsRequest(s, reply)>>)

\* Mutation: the credentials of a failed request are stored all the same.
getRequestTokenStoresFailure(s, reply) ==
    IF s.RequestToken = Nil
    THEN Return([s EXCEPT !.RequestToken = fromOauth(reply.cred)], Nil, reply.err,
                <<TemporaryCredentialsRequest(s, reply)>>)
    ELSE Return(s, Nil, NoErr, <<>>)

getRequestToken(s, reply) ==
    IF s.RequestToken = Nil
    THEN IF reply.err # NoErr
         THEN Return(s, Nil, reply.err, <<TemporaryCredentialsRequest(s, reply)>>)
         ELSE Return([s EXCEPT !.RequestToken = fromOauth(reply.cred)], Nil, NoErr,
                     <<TemporaryCredentialsRequest(s, reply)>>)
    ELSE Return(s, Nil, NoErr, <<>>)

makeParams(s, locale) ==
    IF locale /\ s.Locale # "" THEN Set({}, "locale", s.Locale) ELSE {}

\* The "" returned along with an error.
EmptyURL == [base |-> [host |-> "", path |-> <<>>], query |-> {}]

\* oauth.Client.AuthorizationURL: the authorization endpoint with the
\* additional parameters and oauth_token in its query.
AuthorizationURL(oc, cred, additionalParams) ==
    [base |-> oc.ResourceOwnerAuthorizationURI,
     query |-> Set(additionalParams, "oauth_token", Deref(cred).Token)]

\* Mutation: oauth_callback is set without testing callback != "".
getAuthorizeURLMutant(s, callback, reply) ==
    LET r == getRequestToken(s, reply) IN
    IF r.err # NoErr
    THEN Return(r.s, EmptyURL, r.err, r.sent)
    ELSE LET p0 == makeParams(r.s, TRUE)
             p1 == Set(p0, "oauth_callback", callback)
         IN Return(r.s, AuthorizationURL(r.s.OauthClient, oauth(r.s.RequestToken), p1),
                   NoErr, r.sent)

getAuthorizeURL(s, callback, reply) ==
    LET r == getRequestToken(s, reply) IN
    IF r.err # NoErr
    THEN Return(r.s, EmptyURL, r.err, r.sent)
    ELSE LET p0 == makeParams(r.s, TRUE)
             p1 == IF callback # "" THEN Set(p0, "oauth_callback", callback) ELSE p0
         IN Return(r.s, AuthorizationURL(r.s.OauthClient, oauth(r.s.RequestToken), p1),
                   NoErr, r.sent)

\* Mutation: the callback exchange insists on a stored request pair.
getAccessTokenCallbackMutant(s, requestToken, verifier, reply) ==
    IF requestToken = Nil
    THEN Panic(s, PanicNilDeref)
    ELSE IF s.RequestToken = Nil
         THEN Return(s, Nil, ErrNoRequestToken, <<>>)
         ELSE IF reply.err # NoErr
              THEN Return(s, Nil, reply.err,
                          <<TokenRequest(s, oauth(requestToken), verifier, reply)>>)
              ELSE Return([s EXCEPT !.AccessToken = fromOauth(reply.cred)], Nil, NoErr,
                          <<TokenRequest(s, oauth(requestToken), verifier, reply)>>)

\* Mutation: a successful callback exchange discards the request pair.
getAccessTokenCallbackDiscards(s, requestToken, verifier, reply) ==
    IF requestToken = Nil
    THEN Panic(s, PanicNilDeref)
    ELSE IF reply.err # NoErr
         THEN Return(s, Nil, reply.err,
                     <<TokenRequest(s, oauth(requestToken), verifier, reply)>>)
         ELSE Return([s EXCEPT !.AccessToken = fromOauth(reply.cred), !.RequestToken = Nil],
                     Nil, NoErr,
                     <<TokenRequest(s, oauth(requestToken), verifier, reply)>>)

getAccessTokenCallback(s, requestToken, verifier, reply) ==
    IF requestToken = Nil
    THEN Panic(s, PanicNilDeref)
    ELSE IF reply.err # NoErr
         THEN Return(s, Nil, reply.err,
                     <<TokenRequest(s, oauth(requestToken), verifier, reply)>>)
         ELSE Return([s EXCEPT !.AccessToken = fromOauth(reply.cred)], Nil, NoErr,
                     <<TokenRequest(s, oauth(requestToken), verifier, reply)>>)

\* Mutation: the request-pair test comes before the Authorized test.
getAccessTokenSwapped(s, reply) ==
    IF s.RequestToken = Nil
    THEN Return(s, Nil, ErrNoRequestToken, <<>>)
    ELSE IF Authorized(s)
         THEN Return(s, Nil, NoErr, <<>>)
         ELSE IF reply.err # NoErr
              THEN Return(s, Nil, reply.err,
                          <<TokenRequest(s, oauth(s.RequestToken), "", reply)>>)
              ELSE Return([s EXCEPT !.AccessToken = fromOauth(reply.cred)], Nil, NoErr,
                          <<TokenRequest(s, oauth(s.RequestToken), "", reply)>>)

\* Mutation: the Authorized test is missing, every call exchanges again.
getAccessTokenAlways(s, reply) ==
    IF s.RequestToken = Nil
    THEN Return(s, Nil, ErrNoRequestToken, <<>>)
    ELSE IF reply.err # NoErr
         THEN Return(s, Nil, reply.err,
                     <<TokenRequest(s, oauth(s.RequestToken), "", reply)>>)
         ELSE Return([s EXCEPT !.AccessToken = fromOauth(reply.cred)], Nil, NoErr,
                     <<TokenRequest(s, oauth(s.RequestToken), "", reply)>>)

getAccessToken(s, reply) ==
    IF Authorized(s)
    THEN Return(s, Nil, NoErr, <<>>)
    ELSE IF s.RequestToken = Nil
         THEN Return(s, Nil, ErrNoRequestToken, <<>>)
         ELSE IF reply.err # NoErr
              THEN Return(s, Nil, reply.err,
                          <<TokenRequest(s, oauth(s.RequestToken), "", reply)>>)
              ELSE Return([s EXCEPT !.AccessToken = fromOauth(reply.cred)], Nil, NoErr,
                          <<TokenRequest(s, oauth(s.RequestToken), "", reply)>>)

\* The oauth_* fields oauth.Client.SignParam adds to the parameter set.
OauthKeys ==
    {"oauth_consumer_key", "oauth_signature_method", "oauth_timestamp",
     "oauth_version", "oauth_nonce", "oauth_token", "oauth_signature"}

\* oauth.Client.SignParam: the signature is HMAC-SHA1 keyed with
\* consumerSecret&tokenSecret; the base string is not modelled.
SignParam(oc, cred, method, url, p) ==
    LET p1 == Set(p, "oauth_consumer_key", oc.Credentials.Token)
        p2 == Set(p1, "oauth_signature_method", "HMAC-SHA1")
        p3 == Set(p2, "oauth_timestamp", "<timestamp>")
        p4 == Set(p3, "oauth_version", "1.0")
        p5 == Set(p4, "oauth_nonce", "<nonce>")
        p6 == Set(p5, "oauth_token", Deref(cred).Token)
    IN Set(p6, "oauth_signature",
           "HMAC-SHA1(" \o oc.Credentials.Secret \o "&" \o Deref(cred).Secret \o ")")

\* Mutation: the unauthorized case returns no error and leaves the
\* parameters unsigned.
signParamMutant(s, method, url, p) ==
    IF ~Authorized(s)
    THEN [err |-> NoErr, params |-> p]
    ELSE [err |-> NoErr, params |-> SignParam(s.OauthClient, oauth(s.AccessToken), method, url, p)]

signParam(s, method, url, p) ==
    IF ~Authorized(s)
    THEN [err |-> ErrNotAuthorized, params |-> p]
    ELSE [err |-> NoErr, params |-> SignParam(s.OauthClient, oauth(s.AccessToken), method, url, p)]

(* ---------------------------------------------------------------------- *)
(* package path: Join and Clean                                            *)
(* ---------------------------------------------------------------------- *)

\* The elements of p between its slashes, from position i on; cur is the
\* element being read.
RECURSIVE SplitFrom(_, _, _)
SplitFrom(p, i, cur) ==
    IF i > Len(p) THEN <<cur>>
    ELSE IF p[i] = "/" THEN <<cur>> \o SplitFrom(p, i + 1, <<>>)
    ELSE SplitFrom(p, i + 1, Append(cur, p[i]))

DotDot == <<".", ".">>

\* path.Clean's pass over the elements: empty and "." elements are
\* skipped; ".." removes the element before it, is dropped at the root of a
\* rooted path and is kept at the front of a relative one.
RECURSIVE CleanElems(_, _, _, _)
CleanElems(elems, i, out, rooted) ==
    IF i > Len(elems) THEN out
    ELSE IF elems[i] = <<>> \/ elems[i] = <<".">>
         THEN CleanElems(elems, i + 1, out, rooted)
    ELSE IF elems[i] = DotDot
         THEN IF out # <<>> /\ out[Len(out)] # DotDot
              THEN CleanElems(elems, i + 1, SubSeq(out, 1, Len(out) - 1), rooted)
              ELSE IF rooted
                   THEN CleanElems(elems, i + 1, out, rooted)
                   ELSE CleanElems(elems, i + 1, Append(out, DotDot), rooted)
    ELSE CleanElems(elems, i + 1, Append(out, elems[i]), rooted)

\* The elements joined with "/".
RECURSIVE JoinElems(_)
JoinElems(elems) ==
    IF elems = <<>> THEN <<>>
    ELSE IF Len(elems) = 1 THEN elems[1]
    ELSE elems[1] \o <<"/">> \o JoinElems(Tail(elems))

\* path.Clean
Clean(p) ==
    IF p = <<>> THEN <<".">>
    ELSE LET rooted == p[1] = "/"
             out == CleanElems(SplitFrom(p, 1, <<>>), 1, <<>>, rooted)
         IN IF rooted THEN <<"/">> \o JoinElems(out)
            ELSE IF out = <<>> THEN <<".">> ELSE JoinElems(out)

\* path.Join: the non-empty elements joined with "/", then cleaned; ""
\* when every element is empty.
Join(elems) ==
    LET nonEmpty == SelectSeq(elems, LAMBDA e : e # <<>>) IN
    IF nonEmpty = <<>> THEN <<>> ELSE Clean(JoinElems(nonEmpty))

(* ---------------------------------------------------------------------- *)
(* client.go, client_util.go                                               *)
(* ---------------------------------------------------------------------- *)

\* Client.filePath for the client c
filePath(c, p) == Clean(Join(<<<<"/">>, RootChars(c.root), p>>))

\* The address of the one Session of the model; a Client holds it in its
\* embedded *Session field.
SessionAddr == "&Session"

\* Mutation: the constructor does not test the Session.
NewClientMutant(s, root) ==
    [outcome |-> Returned, client |-> Ptr([Session |-> SessionAddr, root |-> root])]

NewClient(s, root) ==
    IF ~Authorized(s)
    THEN [outcome |-> PanicNotAuthorized, client |-> Nil]
    ELSE [outcome |-> Returned, client |-> Ptr([Session |-> SessionAddr, root |-> root])]

HexDigits ==
    {"0", "1", "2", "3", "4", "5", "6", "7", "8", "9",
     "a", "b", "c", "d", "e", "f", "A", "B", "C", "D", "E", "F"}

\* url.Parse accepts the URL: every "%" in the path starts a two-digit hex escape.
validURL(u) ==
    \A i \in DOMAIN u.path :
        u.path[i] = "%" =>
            /\ i + 2 <= Len(u.path)
            /\ u.path[i + 1] \in HexDigits
            /\ u.path[i + 2] \in HexDigits

\* What the HTTP client may return for a request to u: an error, or a
\* response with some status; an unparsable URL is never sent.
HTTPReplies(u) ==
    {[err |-> ErrTransport, StatusCode |-> 0, Body |-> EmptyBody, Header |-> NoHeader]}
        \cup (IF validURL(u)
              THEN {[err |-> NoErr, StatusCode |-> c, Body |-> EmptyBody, Header |-> NoHeader] :
                       c \in Statuses}
              ELSE {})

\* What the HTTP client may return to an endpoint method for a request to
\* u: an error, or a response; a 304 response has no body.
EndpointReplies(u) ==
    {[err |-> ErrTransport, StatusCode |-> 0, Body |-> EmptyBody, Header |-> NoHeader]}
        \cup (IF validURL(u)
              THEN {[err |-> NoErr, StatusCode |-> sb[1], Body |-> sb[2], Header |-> NoHeader] :
                       sb \in {<<StatusOK, BodyContent("object", MetadataFields, TRUE)>>,
                               <<StatusOK, BodyContent("object", UploadFields, TRUE)>>,
                               <<StatusOK, GarbageBody>>,
                               <<StatusOK, EmptyBody>>,
                               <<StatusNotModified, EmptyBody>>,
                               <<StatusBadRequest, BodyContent("object", OffsetFields, FALSE)>>,
                               <<StatusBadRequest, GarbageBody>>,
                               <<StatusBadRequest, EmptyBody>>,
                               <<StatusUnauthorized, BodyContent("object", ErrorFields, FALSE)>>}}
              ELSE {})

\* The replies to a file download: in those with status 200 the
\* x-dropbox-metadata header is not set, a JSON object, or not JSON.
FileReplies(u) ==
    EndpointReplies(u)
        \cup {[r EXCEPT !.Header = h] :
                 r \in {x \in EndpointReplies(u) : x.err = NoErr /\ x.StatusCode = StatusOK},
                 h \in {NoHeader, BodyContent("object", MetadataFields, FALSE), GarbageBody}}

OpenBody == [drained |-> FALSE, closed |-> FALSE]

drainAndClose(b) == [b EXCEPT !.drained = TRUE, !.closed = TRUE]

\* response.Body.Close()
close(b) == [b EXCEPT !.closed = TRUE]

\* The *http.Response of the HTTP client for the request (method, u, p).
Response(method, u, p, reply) ==
    [StatusCode |-> reply.StatusCode,
     Body |-> reply.Body,
     Header |-> reply.Header,
     Request |-> [Method |-> method, URL |-> [host |-> u.host, path |-> u.path, query |-> p]]]

\* The results of a transport call: the response (or nil), the error, the
\* exchanges made, the caller's parameter set and the response body's state.
Transport(s, resp, e, reqs, p, b) ==
    [s |-> s, ret |-> resp, err |-> e, outcome |-> Returned, sent |-> reqs,
     params |-> p, body |-> b]

\* response.Request.URL.Path[3:]
Context(response) ==
    SubSeq(response.Request.URL.path, 4, Len(response.Request.URL.path))

\* checkResponse(response, err) for the response (or error) in reply; the
\* result is the response and error returned and the body's state.
checkResponse(response, e) ==
    IF e # NoErr
    THEN [response |-> Nil, err |-> e, body |-> Nil]
    ELSE IF response.StatusCode = StatusUnauthorized
         THEN [response |-> Nil,
               err |-> AuthorizationError(Context(response), "bad or expired token"),
               body |-> Ptr(drainAndClose(OpenBody))]
         ELSE [response |-> Ptr(response), err |-> e, body |-> Ptr(OpenBody)]

\* The exchange with the HTTP client for an API request.
APIRequest(s, method, u, p, reply) ==
    [kind |-> "api", method |-> method, uri |-> u,
     consumer |-> s.OauthClient.Credentials,
     cred |-> s.AccessToken, verifier |-> "", params |-> p, via |-> sessionClient(s),
     reply |-> reply]

\* Mutation: a request that failed in transport is sent once more.
doMutant(s, method, u, p, reply) ==
    LET cr == checkResponse(Response(method, u, p, reply), reply.err) IN
    Transport(s, cr.response, cr.err,
              IF reply.err # NoErr
              THEN <<APIRequest(s, method, u, p, reply), APIRequest(s, method, u, p, reply)>>
              ELSE <<APIRequest(s, method, u, p, reply)>>,
              p, cr.body)

\* The part the three transport calls share once the request is built:
\* hand it to the HTTP client and classify what comes back.
do(s, method, u, p, reply) ==
    LET cr == checkResponse(Response(method, u, p, reply), reply.err) IN
    Transport(s, cr.response, cr.err, <<APIRequest(s, method, u, p, reply)>>, p, cr.body)

put(s, urlStr, p, reply) ==
    LET sp == signParam(s, "PUT", urlStr, p) IN
    IF sp.err # NoErr
    THEN Transport(s, Nil, sp.err, <<>>, sp.params, Nil)
    ELSE IF ~validURL(urlStr)
         THEN Transport(s, Nil, ErrBadURL, <<>>, sp.params, Nil)
         ELSE do(s, "PUT", urlStr, sp.params, reply)

postForm(s, urlStr, p, reply) ==
    LET sp == signParam(s, "POST", urlStr, p) IN
    IF sp.err # NoErr
    THEN Transport(s, Nil, sp.err, <<>>, sp.params, Nil)
    ELSE do(s, "POST", urlStr, sp.params, reply)

\* Mutation: a 401 makes the Session discard its access token.
getMutant(s, urlStr, p, reply) ==
    LET sp == signParam(s, "GET", urlStr, p)
        r == do(s, "GET", urlStr, sp.params, reply)
    IN IF sp.err # NoErr
       THEN Transport(s, Nil, sp.err, <<>>, sp.params, Nil)
       ELSE IF r.err.kind = "AuthorizationError"
            THEN [r EXCEPT !.s = [s EXCEPT !.AccessToken = Nil]]
            ELSE r

get(s, urlStr, p, reply) ==
    LET sp == signParam(s, "GET", urlStr, p) IN
    IF sp.err # NoErr
    THEN Transport(s, Nil, sp.err, <<>>, sp.params, Nil)
    ELSE do(s, "GET", urlStr, sp.params, reply)

(* ---------------------------------------------------------------------- *)
(* client_util.go: JSON decoding                                           *)
(* ---------------------------------------------------------------------- *)

\* The member k of the JSON object f, or old when f has no such member.
JSONField(f, k, old) == IF Has(f, k) THEN (CHOOSE kv \in f : kv[1] = k)[2] ELSE old

ZeroMetadata == [Path |-> "", Rev |-> ""]

ZeroChunkedUpload == [UploadId |-> "", Offset |-> 0]

\* encoding/json into a Metadata (its Path and Rev fields).
decodeMetadata(meta, f) ==
    [Path |-> JSONField(f, "path", meta.Path), Rev |-> JSONField(f, "rev", meta.Rev)]

\* encoding/json into a ChunkedUpload (its UploadId and Offset fields).
decodeChunkedUpload(state, f) ==
    [UploadId |-> JSONField(f, "upload_id", state.UploadId),
     Offset |-> JSONField(f, "offset", state.Offset)]

\* encoding/json into an APIError: Message is tagged "error", Code has no
\* tag and so is set from a member named "code".
decodeAPIError(apierr, f) ==
    [apierr EXCEPT !.msg = JSONField(f, "error", @), !.code = JSONField(f, "code", @)]

\* The target variable before decoding.
Zero(shape) == IF shape = "Metadata" THEN Nil ELSE ZeroChunkedUpload

\* The target variable after a JSON object was decoded into it.
Decode(shape, f) ==
    IF shape = "Metadata"
    THEN Ptr(decodeMetadata(ZeroMetadata, f))
    ELSE decodeChunkedUpload(ZeroChunkedUpload, f)

\* What json.Decoder.Decode reports for the content.
decodeErr(content) ==
    IF content.kind = "empty" THEN ErrEOF
    ELSE IF content.kind = "garbage" THEN ErrSyntax
    ELSE NoErr

\* The body's state once a json.Decoder has read from it.
decoderRead(b, content) ==
    [b EXCEPT !.drained = @ \/ content.kind = "empty" \/ ~content.more]

\* parseJSON(resp, target) for a target of the given shape and a response
\* whose body is in state b: the error, the target and the body afterwards.
parseJSON(resp, shape, b) ==
    LET derr == decodeErr(resp.Body)
        read == decoderRead(b, resp.Body)
        apierr == APIError(resp.StatusCode, "")
    IN IF resp.StatusCode = StatusOK
       THEN IF derr # NoErr
            THEN [err |-> derr, target |-> Zero(shape), body |-> read]
            ELSE [err |-> NoErr, target |-> Decode(shape, resp.Body.fields), body |-> read]
       ELSE IF derr # NoErr /\ derr # ErrEOF
            THEN [err |-> derr, target |-> Zero(shape), body |-> read]
            ELSE [err |-> IF derr = NoErr
                          THEN decodeAPIError(apierr, resp.Body.fields)
                          ELSE apierr,
                  target |-> Zero(shape), body |-> read]

putJSON(s, urlStr, p, shape, reply) ==
    LET r == put(s, urlStr, p, reply) IN
    IF r.err # NoErr
    THEN [r EXCEPT !.ret = Zero(shape)]
    ELSE LET pj == parseJSON(Deref(r.ret), shape, Deref(r.body)) IN
         [r EXCEPT !.ret = pj.target, !.err = pj.err, !.body = Ptr(drainAndClose(pj.body))]

getJSON(s, urlStr, p, shape, reply) ==
    LET r == get(s, urlStr, p, reply) IN
    IF r.err # NoErr
    THEN [r EXCEPT !.ret = Zero(shape)]
    ELSE LET pj == parseJSON(Deref(r.ret), shape, Deref(r.body)) IN
         [r EXCEPT !.ret = pj.target, !.err = pj.err, !.body = Ptr(drainAndClose(pj.body))]

postFormJSON(s, urlStr, p, shape, reply) ==
    LET r == postForm(s, urlStr, p, reply) IN
    IF r.err # NoErr
    THEN [r EXCEPT !.ret = Zero(shape)]
    ELSE LET pj == parseJSON(Deref(r.ret), shape, Deref(r.body)) IN
         [r EXCEPT !.ret = pj.target, !.err = pj.err, !.body = Ptr(drainAndClose(pj.body))]

\* json.Unmarshal([]byte(metaStr), &meta)
unmarshalHeader(h) ==
    IF h.kind = "garbage"
    THEN [err |-> ErrSyntax, meta |-> Nil]
    ELSE [err |-> NoErr, meta |-> Ptr(decodeMetadata(ZeroMetadata, h.fields))]

\* The result is the reader handed to the caller (the response body, left
\* open) and the metadata of the x-dropbox-metadata header.
fileAccess(s, uri, p, reply) ==
    LET r == get(s, uri, p, reply) IN
    IF r.err # NoErr
    THEN [r EXCEPT !.ret = [body |-> Nil, meta |-> Nil]]
    ELSE LET response == Deref(r.ret)
             um == unmarshalHeader(response.Header)
         IN IF response.Header.kind # "empty" /\ um.err # NoErr
            THEN [r EXCEPT !.ret = [body |-> Nil, meta |-> Nil], !.err = um.err,
                           !.body = Ptr(drainAndClose(Deref(r.body)))]
            ELSE [r EXCEPT !.ret = [body |-> r.body,
                                    meta |-> IF response.Header.kind # "empty"
                                             THEN um.meta ELSE Nil]]

(* ---------------------------------------------------------------------- *)
(* client.go: endpoint methods                                             *)
(* ---------------------------------------------------------------------- *)

\* strconv.FormatInt(n, 10)
FormatInt(n) == ToString(n)

\* strconv.FormatBool
FormatBool(b) == IF b THEN "true" ELSE "false"

GetFile(s, c, path, rev, reply) ==
    LET uri == URLAppend(FilesURL, filePath(c, path))
        p0 == makeParams(s, FALSE)
        p1 == IF rev # "" THEN Set(p0, "rev", rev) ELSE p0
    IN fileAccess(s, uri, p1, reply)

\* Mutation: overwrite is always sent.
PutFileMutant(s, c, path, overwrite, parentRev, reply) ==
    LET uri == URLAppend(FilesPutURL, filePath(c, path))
        p0 == makeParams(s, TRUE)
        p1 == Set(p0, "overwrite", FormatBool(overwrite))
        p2 == IF parentRev # "" THEN Set(p1, "parent_rev", parentRev) ELSE p1
    IN putJSON(s, uri, p2, "Metadata", reply)

PutFile(s, c, path, overwrite, parentRev, reply) ==
    LET uri == URLAppend(FilesPutURL, filePath(c, path))
        p0 == makeParams(s, TRUE)
        p1 == IF overwrite THEN Set(p0, "overwrite", "true") ELSE p0
        p2 == IF parentRev # "" THEN Set(p1, "parent_rev", parentRev) ELSE p1
    IN putJSON(s, uri, p2, "Metadata", reply)

\* Mutation: every APIError is taken for "unmodified".
MetadataMutant(s, c, path, fileLimit, hash, list, deleted, rev, reply) ==
    LET p0 == makeParams(s, TRUE)
        p1 == IF fileLimit > 0 THEN Set(p0, "file_limit", FormatInt(fileLimit)) ELSE p0
        p2 == IF hash # "" THEN Set(p1, "hash", hash) ELSE p1
        p3 == IF ~list THEN Set(p2, "list", "false") ELSE p2
        p4 == IF deleted THEN Set(p3, "include_deleted", "true") ELSE p3
        p5 == IF rev # "" THEN Set(p4, "rev", rev) ELSE p4
        r == getJSON(s, URLAppend(MetadataURL, filePath(c, path)), p5, "Metadata", reply)
    IN IF r.err.kind = "APIError"
       THEN [r EXCEPT !.ret = [meta |-> r.ret, unmodified |-> TRUE], !.err = NoErr]
       ELSE [r EXCEPT !.ret = [meta |-> r.ret, unmodified |-> FALSE]]

Metadata(s, c, path, fileLimit, hash, list, deleted, rev, reply) ==
    LET p0 == makeParams(s, TRUE)
        p1 == IF fileLimit > 0 THEN Set(p0, "file_limit", FormatInt(fileLimit)) ELSE p0
        p2 == IF hash # "" THEN Set(p1, "hash", hash) ELSE p1
        p3 == IF ~list THEN Set(p2, "list", "false") ELSE p2
        p4 == IF deleted THEN Set(p3, "include_deleted", "true") ELSE p3
        p5 == IF rev # "" THEN Set(p4, "rev", rev) ELSE p4
        r == getJSON(s, URLAppend(MetadataURL, filePath(c, path)), p5, "Metadata", reply)
    IN IF r.err.kind = "APIError" /\ r.err.code = StatusNotModified
       THEN [r EXCEPT !.ret = [meta |-> r.ret, unmodified |-> TRUE], !.err = NoErr]
       ELSE [r EXCEPT !.ret = [meta |-> r.ret, unmodified |-> FALSE]]

\* What json.Unmarshal reports for the bytes ioutil.ReadAll returned.
unmarshalErr(content) ==
    IF content.kind = "empty" THEN ErrorString("unexpected end of JSON input")
    ELSE IF content.kind = "garbage" THEN ErrSyntax
    ELSE NoErr

\* ioutil.ReadAll(r.Body)
readAll(b) == [b EXCEPT !.drained = TRUE]

\* Mutation: on the 400 path the error is returned without the state.
ChunkedUploadMutant(s, uploadId, offset, reply) ==
    LET p0 == makeParams(s, FALSE)
        p1 == IF uploadId # ""
              THEN Set(Set(p0, "upload_id", uploadId), "offset", FormatInt(offset))
              ELSE p0
        r == put(s, ChunkedUploadURL, p1, reply)
    IN IF r.err # NoErr
       THEN [r EXCEPT !.ret = Nil]
       ELSE LET resp == Deref(r.ret)
                b == Deref(r.body)
            IN IF resp.StatusCode = StatusBadRequest
               THEN LET uerr == unmarshalErr(resp.Body)
                        closed == Ptr(close(readAll(b)))
                    IN IF uerr # NoErr
                       THEN [r EXCEPT !.ret = Nil, !.err = uerr, !.body = closed]
                       ELSE [r EXCEPT
                                !.ret = Nil,
                                !.err = decodeAPIError(APIError(resp.StatusCode, ""),
                                                       resp.Body.fields),
                                !.body = closed]
               ELSE LET pj == parseJSON(resp, "ChunkedUpload", b) IN
                    IF pj.err # NoErr
                    THEN [r EXCEPT !.ret = Nil, !.err = pj.err, !.body = Ptr(close(pj.body))]
                    ELSE [r EXCEPT !.ret = Ptr(pj.target), !.body = Ptr(close(pj.body))]

\* The deferred r.Body.Close() closes the body on every path after put
\* succeeded; only the 400 path reads it to the end.
ChunkedUpload(s, uploadId, offset, reply) ==
    LET p0 == makeParams(s, FALSE)
        p1 == IF uploadId # ""
              THEN Set(Set(p0, "upload_id", uploadId), "offset", FormatInt(offset))
              ELSE p0
        r == put(s, ChunkedUploadURL, p1, reply)
    IN IF r.err # NoErr
       THEN [r EXCEPT !.ret = Nil]
       ELSE LET resp == Deref(r.ret)
                b == Deref(r.body)
            IN IF resp.StatusCode = StatusBadRequest
               THEN LET uerr == unmarshalErr(resp.Body)
                        closed == Ptr(close(readAll(b)))
                    IN IF uerr # NoErr
                       THEN [r EXCEPT !.ret = Nil, !.err = uerr, !.body = closed]
                       ELSE [r EXCEPT
                                !.ret = Ptr(decodeChunkedUpload(ZeroChunkedUpload,
                                                                resp.Body.fields)),
                                !.err = decodeAPIError(APIError(resp.StatusCode, ""),
                                                       resp.Body.fields),
                                !.body = closed]
               ELSE LET pj == parseJSON(resp, "ChunkedUpload", b) IN
                    IF pj.err # NoErr
                    THEN [r EXCEPT !.ret = Nil, !.err = pj.err, !.body = Ptr(close(pj.body))]
                    ELSE [r EXCEPT !.ret = Ptr(pj.target), !.body = Ptr(close(pj.body))]

CommitChunkedUpload(s, c, path, overwrite, parentRev, uploadId, reply) ==
    LET uri == URLAppend(CommitChunkedUploadURL, filePath(c, path))
        p0 == makeParams(s, TRUE)
        p1 == Set(p0, "overwrite", FormatBool(overwrite))
        p2 == IF parentRev # "" THEN Set(p1, "parent_rev", parentRev) ELSE p1
        p3 == Set(p2, "upload_id", uploadId)
    IN postFormJSON(s, uri, p3, "Metadata", reply)

(* ---------------------------------------------------------------------- *)
(* dropbox/client_util.go: the transport of the older package variant      *)
(* ---------------------------------------------------------------------- *)

checkResponseLegacy(response, e) ==
    IF e # NoErr
    THEN [response |-> Nil, err |-> e, body |-> Nil]
    ELSE IF response.StatusCode = StatusUnauthorized
         THEN [response |-> Nil,
               err |-> AuthorizationError(Context(response), "Bad or Expired Token"),
               body |-> Ptr(close(OpenBody))]
         ELSE [response |-> Ptr(response), err |-> e, body |-> Ptr(OpenBody)]

doLegacy(s, method, u, p, reply) ==
    LET cr == checkResponseLegacy(Response(method, u, p, reply), reply.err) IN
    Transport(s, cr.response, cr.err, <<APIRequest(s, method, u, p, reply)>>, p, cr.body)

putLegacy(s, urlStr, p, reply) ==
    LET sp == signParam(s, "PUT", urlStr, p) IN
    IF sp.err # NoErr
    THEN Transport(s, Nil, sp.err, <<>>, sp.params, Nil)
    ELSE IF ~validURL(urlStr)
         THEN Transport(s, Nil, ErrBadURL, <<>>, sp.params, Nil)
         ELSE doLegacy(s, "PUT", urlStr, sp.params, reply)

postFormLegacy(s, urlStr, p, reply) ==
    LET sp == signParam(s, "POST", urlStr, p) IN
    IF sp.err # NoErr
    THEN Transport(s, Nil, sp.err, <<>>, sp.params, Nil)
    ELSE doLegacy(s, "POST", urlStr, sp.params, reply)

getLegacy(s, urlStr, p, reply) ==
    LET sp == signParam(s, "GET", urlStr, p) IN
    IF sp.err # NoErr
    THEN Transport(s, Nil, sp.err, <<>>, sp.params, Nil)
    ELSE doLegacy(s, "GET", urlStr, sp.params, reply)

(* ---------------------------------------------------------------------- *)
(* Calls                                                                   *)
(* ---------------------------------------------------------------------- *)

\* Temporary-credential requests among reqs that the provider granted.
Granted(reqs) ==
    Cardinality({i \in DOMAIN reqs :
                    reqs[i].kind = "temporary_credentials" /\ reqs[i].reply.err = NoErr})

\* The caller invokes operation name with arguments a; r is what the
\* operation does from the current state.
Call(name, a, r) ==
    \E res \in {r} :
        /\ RequestToken' = res.s.RequestToken
        /\ AccessToken' = res.s.AccessToken
        /\ OauthClient' = res.s.OauthClient
        /\ HTTPClient' = res.s.HTTPClient
        /\ Locale' = res.s.Locale
        /\ op' = name
        /\ args' = a
        /\ ret' = res.ret
        /\ err' = res.err
        /\ outcome' = res.outcome
        /\ sent' = res.sent
        /\ params' = res.params
        /\ body' = res.body
        /\ pre' = Self
        /\ granted' = IF name = "Reset" THEN 0 ELSE granted + Granted(res.sent)
        /\ completions' =
              IF name = "Reset" THEN 0
              ELSE IF name = "GetAccessToken" /\ res.outcome = Returned /\ res.err = NoErr
                      /\ completions < MaxCompletions
                   THEN completions + 1
                   ELSE completions

Init ==
    \E appKey \in AppKeys, appSecret \in AppSecrets, httpClient \in HTTPClients,
       accessToken \in {Nil} \cup {Ptr(c) : c \in AccessCreds} :
        LET s == NewSession(appKey, appSecret, httpClient, accessToken) IN
        /\ RequestToken = s.RequestToken
        /\ AccessToken = s.AccessToken
        /\ OauthClient = s.OauthClient
        /\ HTTPClient = s.HTTPClient
        /\ Locale = s.Locale
        /\ client = Nil
        /\ op = "NewSession"
        /\ args = [appKey |-> appKey, appSecret |-> appSecret,
                   httpClient |-> httpClient, accessToken |-> accessToken]
        /\ ret = Nil
        /\ err = NoErr
        /\ outcome = Returned
        /\ sent = <<>>
        /\ params = {}
        /\ body = Nil
        /\ pre = s
        /\ granted = 0
        /\ completions = 0

\* The caller assigns the exported field Session.Locale.
SetLocale ==
    \E l \in Locales :
        /\ l # Locale
        /\ Call("SetLocale", [locale |-> l], Return([Self EXCEPT !.Locale = l], Nil, NoErr, <<>>))
        /\ UNCHANGED client

Reset ==
    /\ Call("Reset", <<>>, reset(Self))
    /\ UNCHANGED client

GetRequestToken ==
    \E reply \in TemporaryReplies :
        /\ Call("GetRequestToken", <<>>, getRequestToken(Self, reply))
        /\ UNCHANGED client

GetAuthorizeURL ==
    \E callback \in Callbacks, reply \in TemporaryReplies :
        /\ Call("GetAuthorizeURL", [callback |-> callback],
                getAuthorizeURL(Self, callback, reply))
        /\ UNCHANGED client

AuthorizedCall ==
    /\ Call("Authorized", <<>>, Return(Self, Authorized(Self), NoErr, <<>>))
    /\ UNCHANGED client

GetAccessTokenCallback ==
    \E requestToken \in {Nil} \cup {Ptr(c) : c \in RequestCreds},
       verifier \in Verifiers, reply \in TokenReplies :
        /\ Call("GetAccessTokenCallback",
                [requestToken |-> requestToken, verifier |-> verifier],
                getAccessTokenCallback(Self, requestToken, verifier, reply))
        /\ UNCHANGED client

GetAccessToken ==
    \E reply \in TokenReplies :
        /\ Call("GetAccessToken", <<>>, getAccessToken(Self, reply))
        /\ UNCHANGED client

NewClientCall ==
    \E root \in Roots :
        LET r == NewClient(Self, root) IN
        /\ Call("NewClient", [root |-> root],
                [Return(Self, r.client, NoErr, <<>>) EXCEPT !.outcome = r.outcome])
        /\ client' = IF r.outcome = Returned THEN r.client ELSE client

Put ==
    \E urlStr \in TransportURLs, p \in ParamSets :
        \E reply \in HTTPReplies(urlStr) :
            /\ client # Nil
            /\ Call("put", [urlStr |-> urlStr, params |-> p], put(Self, urlStr, p, reply))
            /\ UNCHANGED client

PostForm ==
    \E urlStr \in TransportURLs, p \in ParamSets :
        \E reply \in HTTPReplies(urlStr) :
            /\ client # Nil
            /\ Call("postForm", [urlStr |-> urlStr, params |-> p], postForm(Self, urlStr, p, reply))
            /\ UNCHANGED client

GetCall ==
    \E urlStr \in TransportURLs, p \in ParamSets :
        \E reply \in HTTPReplies(urlStr) :
            /\ client # Nil
            /\ Call("get", [urlStr |-> urlStr, params |-> p], get(Self, urlStr, p, reply))
            /\ UNCHANGED client

Next ==
    \/ NewClientCall
    \/ Put
    \/ PostForm
    \/ GetCall
    \/ SetLocale
    \/ Reset
    \/ GetRequestToken
    \/ GetAuthorizeURL
    \/ AuthorizedCall
    \/ GetAccessTokenCallback
    \/ GetAccessToken

Spec == Init /\ [][Next]_vars

(* The older package variant in dropbox/: its Session and NewClient behave *)
(* as above, its transport calls classify responses with its own          *)
(* checkResponse.                                                          *)

LegacyPut ==
    \E urlStr \in TransportURLs, p \in ParamSets :
        \E reply \in HTTPReplies(urlStr) :
            /\ client # Nil
            /\ Call("put", [urlStr |-> urlStr, params |-> p], putLegacy(Self, urlStr, p, reply))
            /\ UNCHANGED client

LegacyPostForm ==
    \E urlStr \in TransportURLs, p \in ParamSets :
        \E reply \in HTTPReplies(urlStr) :
            /\ client # Nil
            /\ Call("postForm", [urlStr |-> urlStr, params |-> p],
                    postFormLegacy(Self, urlStr, p, reply))
            /\ UNCHANGED client

LegacyGet ==
    \E urlStr \in TransportURLs, p \in ParamSets :
        \E reply \in HTTPReplies(urlStr) :
            /\ client # Nil
            /\ Call("get", [urlStr |-> urlStr, params |-> p], getLegacy(Self, urlStr, p, reply))
            /\ UNCHANGED client

LegacyNext ==
    \/ NewClientCall
    \/ LegacyPut
    \/ LegacyPostForm
    \/ LegacyGet
    \/ Reset

LegacySpec == Init /\ [][LegacyNext]_vars

(* filePath on its own: a Client on an authorized Session, given every     *)
(* path of Paths.                                                          *)

PathInit ==
    \E root \in Roots :
        LET s == NewSession("key1", "secret1", Nil, Ptr(CHOOSE c \in AccessCreds : TRUE)) IN
        /\ RequestToken = s.RequestToken
        /\ AccessToken = s.AccessToken
        /\ OauthClient = s.OauthClient
        /\ HTTPClient = s.HTTPClient
        /\ Locale = s.Locale
        /\ client = NewClient(s, root).client
        /\ op = "NewClient"
        /\ args = [root |-> root]
        /\ ret = client
        /\ err = NoErr
        /\ outcome = Returned
        /\ sent = <<>>
        /\ params = {}
        /\ body = Nil
        /\ pre = s
        /\ granted = 0
        /\ completions = 0

FilePath ==
    \E p \in Paths :
        /\ client # Nil
        /\ Call("filePath", [p |-> p], Return(Self, filePath(Deref(client), p), NoErr, <<>>))
        /\ UNCHANGED client

PathSpec == PathInit /\ [][FilePath]_vars

(* parseJSON on its own, given every status of Statuses with every body of *)
(* Bodies.                                                                 *)

ParseJSON ==
    \E code \in Statuses, content \in Bodies, shape \in Shapes :
        LET resp == Response("GET", AccountInfoURL, {},
                             [err |-> NoErr, StatusCode |-> code, Body |-> content,
                              Header |-> NoHeader])
            r == parseJSON(resp, shape, OpenBody)
        IN /\ Call("parseJSON", [resp |-> resp, shape |-> shape],
                   [Return(Self, r.target, r.err, <<>>) EXCEPT !.body = Ptr(r.body)])
           /\ UNCHANGED client

ParseSpec == PathInit /\ [][ParseJSON]_vars

(* The endpoint methods of a Client whose Session the caller may reset or  *)
(* give another locale.                                                    *)

ClientInit == PathInit /\ Deref(client).root = "dropbox"

GetFileCall ==
    \E path \in {<<"e">>}, rev \in Revs :
        \E reply \in FileReplies(URLAppend(FilesURL, filePath(Deref(client), path))) :
            /\ Call("GetFile", [path |-> path, rev |-> rev],
                    GetFile(Self, Deref(client), path, rev, reply))
            /\ UNCHANGED client

PutFileCall ==
    \E path \in EndpointPaths, overwrite \in BOOLEAN, parentRev \in Revs :
        \E reply \in EndpointReplies(URLAppend(FilesPutURL, filePath(Deref(client), path))) :
            /\ Call("PutFile", [path |-> path, overwrite |-> overwrite, parentRev |-> parentRev],
                    PutFile(Self, Deref(client), path, overwrite, parentRev, reply))
            /\ UNCHANGED client

MetadataCall ==
    \E a \in MetadataArgs :
        \E reply \in EndpointReplies(URLAppend(MetadataURL, filePath(Deref(client), a.path))) :
            /\ Call("Metadata", a,
                    Metadata(Self, Deref(client), a.path, a.fileLimit, a.hash, a.list,
                             a.deleted, a.rev, reply))
            /\ UNCHANGED client

ChunkedUploadCall ==
    \E uploadId \in UploadIds, offset \in {0, 512} :
        \E reply \in EndpointReplies(ChunkedUploadURL) :
            /\ Call("ChunkedUpload", [uploadId |-> uploadId, offset |-> offset],
                    ChunkedUpload(Self, uploadId, offset, reply))
            /\ UNCHANGED client

CommitChunkedUploadCall ==
    \E path \in {<<"e">>}, overwrite \in BOOLEAN, parentRev \in Revs,
       uploadId \in UploadIds :
        \E reply \in EndpointReplies(URLAppend(CommitChunkedUploadURL,
                                               filePath(Deref(client), path))) :
            /\ Call("CommitChunkedUpload",
                    [path |-> path, overwrite |-> overwrite, parentRev |-> parentRev,
                     uploadId |-> uploadId],
                    CommitChunkedUpload(Self, Deref(client), path, overwrite, parentRev,
                                        uploadId, reply))
            /\ UNCHANGED client

ClientNext ==
    \/ GetFileCall
    \/ PutFileCall
    \/ MetadataCall
    \/ ChunkedUploadCall
    \/ CommitChunkedUploadCall
    \/ SetLocale
    \/ Reset

ClientSpec == ClientInit /\ [][ClientNext]_vars

(* The Session operations and the endpoint methods together; here an       *)
(* endpoint method is called with its optional arguments at their defaults *)
(* and answered with a transport error, a metadata object or a 401.        *)

FewReplies ==
    {r \in EndpointReplies(MetadataURL) :
        \/ r.err # NoErr
        \/ r.StatusCode = StatusUnauthorized
        \/ r.StatusCode = StatusOK /\ r.Body = BodyContent("object", MetadataFields, TRUE)}

EndpointCall ==
    /\ client # Nil
    /\ \E reply \in FewReplies :
          LET c == Deref(client) IN
          \/ Call("GetFile", [path |-> <<"e">>, rev |-> ""],
                  GetFile(Self, c, <<"e">>, "", reply))
          \/ Call("PutFile", [path |-> <<"e">>, overwrite |-> FALSE, parentRev |-> ""],
                  PutFile(Self, c, <<"e">>, FALSE, "", reply))
          \/ Call("Metadata", DefaultMetadataArgs,
                  Metadata(Self, c, <<"e">>, 0, "", TRUE, FALSE, "", reply))
          \/ Call("ChunkedUpload", [uploadId |-> "", offset |-> 0],
                  ChunkedUpload(Self, "", 0, reply))
          \/ Call("CommitChunkedUpload",
                  [path |-> <<"e">>, overwrite |-> FALSE, parentRev |-> "", uploadId |-> "u1"],
                  CommitChunkedUpload(Self, c, <<"e">>, FALSE, "", "u1", reply))
    /\ UNCHANGED client

AuthNext == Next \/ EndpointCall

AuthSpec == Init /\ [][AuthNext]_vars

(* ---------------------------------------------------------------------- *)
(* Properties                                                              *)
(* ---------------------------------------------------------------------- *)

\* The credential pairs are as they were when the last call started.
PairsUnchanged ==
    /\ RequestToken = pre.RequestToken
    /\ AccessToken = pre.AccessToken

TransportOps == {"get", "postForm", "put"}

\* C1: Authorized() returns true exactly when the access pair is present,
\* and the call leaves both credential pairs as they were.
C1_AuthorizedIffAccessPair ==
    op = "Authorized" =>
        /\ outcome = Returned
        /\ ret = (AccessToken # Nil)
        /\ PairsUnchanged

C1_Witness ==
    /\ op = "Authorized"
    /\ ret = TRUE
    /\ AccessToken # Nil
    /\ RequestToken = Nil

\* C2: a transport call (get, postForm, put) on a Session without an access
\* pair returns the "not authorized" error, performs no HTTP exchange and
\* leaves the parameter set without any oauth_* field; whenever a transport
\* call does perform an HTTP exchange, the access pair was present and the
\* request carries the parameters signed with it.
C2_NoRequestWithoutAccessPair ==
    op \in TransportOps =>
        /\ pre.AccessToken = Nil =>
              /\ err = ErrNotAuthorized
              /\ ret = Nil
              /\ sent = <<>>
              /\ params = args.params
              /\ Keys(params) \cap OauthKeys = {}
        /\ sent # <<>> =>
              /\ pre.AccessToken # Nil
              /\ Len(sent) = 1
              /\ sent[1].kind = "api"
              /\ OauthKeys \subseteq Keys(sent[1].params)
              /\ Get(sent[1].params, "oauth_token") = Deref(pre.AccessToken).Token

C2_Witness ==
    /\ op \in TransportOps
    /\ client # Nil
    /\ pre.AccessToken = Nil
    /\ err = ErrNotAuthorized
    /\ args.params # {}

\* C3: after Reset() both the request pair and the access pair are absent
\* and Authorized() is false, whatever the state before.
C3_ResetClearsBothPairs ==
    op = "Reset" =>
        /\ RequestToken = Nil
        /\ AccessToken = Nil
        /\ ~Authorized(Self)

C3_Witness ==
    /\ op = "Reset"
    /\ pre.RequestToken # Nil
    /\ pre.AccessToken # Nil
    /\ RequestToken = Nil
    /\ AccessToken = Nil

\* C4 as stated: Authorized() is false on every freshly constructed Session,
\* whatever the arguments of NewSession.
C4_FreshSessionNeverAuthorized ==
    op = "NewSession" => ~Authorized(Self)

\* C4 (amended): on a freshly constructed Session the request pair is absent
\* and Authorized() is true exactly when NewSession was given a non-nil
\* accessToken, which is then the Session's access pair.
C4_FreshSessionAuthorizedIffGivenToken ==
    op = "NewSession" =>
        /\ RequestToken = Nil
        /\ AccessToken = args.accessToken
        /\ Authorized(Self) <=> args.accessToken # Nil

C4_Witness ==
    /\ op = "NewSession"
    /\ args.accessToken # Nil
    /\ Authorized(Self)

\* C5: GetRequestToken() with a stored request pair performs no exchange,
\* returns nil and leaves both pairs; without one it performs exactly one
\* temporary-credential exchange and stores the returned pair if and only if
\* that succeeded; so at most one such exchange succeeds between two Resets.
C5_GetRequestTokenOnce ==
    /\ op = "GetRequestToken" =>
          /\ outcome = Returned
          /\ AccessToken = pre.AccessToken
          /\ pre.RequestToken # Nil =>
                /\ sent = <<>>
                /\ err = NoErr
                /\ RequestToken = pre.RequestToken
          /\ pre.RequestToken = Nil =>
                /\ Len(sent) = 1
                /\ sent[1].kind = "temporary_credentials"
                /\ err = sent[1].reply.err
                /\ err = NoErr => RequestToken = Ptr(sent[1].reply.cred)
                /\ err # NoErr => RequestToken = Nil
    /\ granted <= 1

C5_Witness ==
    /\ op = "GetRequestToken"
    /\ pre.RequestToken # Nil
    /\ sent = <<>>
    /\ granted = 1

\* C6: GetAuthorizeURL(callback) succeeds only with a request pair in the
\* Session, and then the URL is the authorization endpoint with that pair's
\* token as oauth_token and with oauth_callback = callback exactly when
\* callback is non-empty; when request-token acquisition fails it returns
\* the empty URL with the acquisition's error and the Session has no
\* request pair.
C6_AuthorizeURLEmbedsRequestToken ==
    op = "GetAuthorizeURL" =>
        /\ outcome = Returned
        /\ err = NoErr =>
              /\ RequestToken # Nil
              /\ ret.base = AuthorizationURI
              /\ Has(ret.query, "oauth_token")
              /\ Get(ret.query, "oauth_token") = Deref(RequestToken).Token
              /\ Has(ret.query, "oauth_callback") <=> args.callback # ""
              /\ args.callback # "" => Get(ret.query, "oauth_callback") = args.callback
        /\ err # NoErr =>
              /\ ret = EmptyURL
              /\ pre.RequestToken = Nil
              /\ RequestToken = Nil
              /\ Len(sent) = 1
              /\ err = sent[1].reply.err
        /\ ret # EmptyURL => RequestToken # Nil

C6_Witness ==
    /\ op = "GetAuthorizeURL"
    /\ err = NoErr
    /\ pre.RequestToken = Nil
    /\ args.callback # ""
    /\ Has(ret.query, "oauth_callback")

\* C7: GetAccessToken() in Authorized returns nil with no exchange; in
\* Unauthenticated it returns "no request token" with no exchange and no
\* change; in RequestPending it performs one token exchange with the stored
\* request pair and an empty verifier and stores the returned access pair
\* on success.
C7_GetAccessTokenByState ==
    op = "GetAccessToken" =>
        /\ outcome = Returned
        /\ pre.AccessToken # Nil =>
              /\ err = NoErr
              /\ sent = <<>>
              /\ PairsUnchanged
        /\ (pre.AccessToken = Nil /\ pre.RequestToken = Nil) =>
              /\ err = ErrNoRequestToken
              /\ sent = <<>>
              /\ PairsUnchanged
        /\ (pre.AccessToken = Nil /\ pre.RequestToken # Nil) =>
              /\ Len(sent) = 1
              /\ sent[1].kind = "token"
              /\ sent[1].uri = AccessURI
              /\ sent[1].cred = pre.RequestToken
              /\ sent[1].verifier = ""
              /\ err = sent[1].reply.err
              /\ err = NoErr => AccessToken = Ptr(sent[1].reply.cred)

C7_Witness ==
    /\ op = "GetAccessToken"
    /\ pre.AccessToken = Nil
    /\ pre.RequestToken # Nil
    /\ err = NoErr
    /\ AccessToken # Nil

\* C8: once a GetAccessToken() call has returned nil, every later
\* GetAccessToken() call before the next Reset() performs no exchange,
\* returns nil and leaves the access pair and the request pair unchanged.
C8_GetAccessTokenIdempotent ==
    [][(completions >= 1 /\ op' = "GetAccessToken") =>
          /\ sent' = <<>>
          /\ err' = NoErr
          /\ outcome' = Returned
          /\ AccessToken' = AccessToken
          /\ RequestToken' = RequestToken]_vars

C8_Witness ==
    /\ op = "GetAccessToken"
    /\ completions = 2
    /\ pre.RequestToken # Nil
    /\ AccessToken # Nil
    /\ sent = <<>>

\* C9: GetAccessTokenCallback(requestPair, verifier) with a non-nil pair
\* performs, in every Session state, one token exchange with the supplied
\* pair and verifier, stores the returned access pair on success, and
\* leaves the stored request pair alone.
C9_CallbackUsesSuppliedPair ==
    (op = "GetAccessTokenCallback" /\ args.requestToken # Nil) =>
        /\ outcome = Returned
        /\ Len(sent) = 1
        /\ sent[1].kind = "token"
        /\ sent[1].uri = AccessURI
        /\ sent[1].cred = args.requestToken
        /\ sent[1].verifier = args.verifier
        /\ err = sent[1].reply.err
        /\ err = NoErr =>
              /\ AccessToken = Ptr(sent[1].reply.cred)
              /\ Authorized(Self)
        /\ RequestToken = pre.RequestToken

C9_Witness ==
    /\ op = "GetAccessTokenCallback"
    /\ pre.RequestToken = Nil
    /\ pre.AccessToken = Nil
    /\ args.requestToken # Nil
    /\ args.verifier # ""
    /\ err = NoErr
    /\ Authorized(Self)

\* C10: an access exchange with neither a stored nor a supplied request
\* pair returns the "no request token" error value, with no exchange and
\* no state change, from GetAccessToken() as well as from
\* GetAccessTokenCallback(nil, verifier).
C10_NoRequestTokenError ==
    /\ (op = "GetAccessToken" /\ pre.AccessToken = Nil /\ pre.RequestToken = Nil) =>
          /\ outcome = Returned
          /\ err = ErrNoRequestToken
          /\ sent = <<>>
          /\ PairsUnchanged
    /\ (op = "GetAccessTokenCallback" /\ args.requestToken = Nil /\ pre.RequestToken = Nil) =>
          /\ outcome = Returned
          /\ err = ErrNoRequestToken
          /\ sent = <<>>
          /\ PairsUnchanged

\* C11: NewClient on a Session without an access pair panics and returns no
\* Client (no error value, in particular not signing's "not authorized");
\* on an Authorized Session it returns a Client holding that Session and
\* the given root.
C11_NewClientPanicsUnauthorized ==
    op = "NewClient" =>
        /\ pre.AccessToken = Nil =>
              /\ outcome = PanicNotAuthorized
              /\ outcome # Returned
              /\ ret = Nil
              /\ err # ErrNotAuthorized
        /\ pre.AccessToken # Nil =>
              /\ outcome = Returned
              /\ ret = Ptr([Session |-> SessionAddr, root |-> args.root])
              /\ client = ret
        /\ Self = pre

C11_Witness ==
    /\ op = "NewClient"
    /\ pre.AccessToken = Nil
    /\ pre.RequestToken # Nil
    /\ outcome = PanicNotAuthorized

\* C12: a transport call whose response has status 401 returns no response
\* but an AuthorizationError whose context is the request path without its
\* leading "/1/", and the response body has been drained and closed; a
\* response with any other status is returned as received, body open.
C12_Unauthorized401 ==
    (op \in TransportOps /\ sent # <<>> /\ sent[1].reply.err = NoErr) =>
        /\ sent[1].reply.StatusCode = StatusUnauthorized =>
              /\ ret = Nil
              /\ err.kind = "AuthorizationError"
              /\ Prefix \o <<"/">> \o err.context = sent[1].uri.path
              /\ body = Ptr([drained |-> TRUE, closed |-> TRUE])
        /\ sent[1].reply.StatusCode # StatusUnauthorized =>
              /\ err = NoErr
              /\ ret # Nil
              /\ Deref(ret).StatusCode = sent[1].reply.StatusCode
              /\ Deref(ret).Body = sent[1].reply.Body
              /\ Deref(ret).Request.URL.path = sent[1].uri.path
              /\ body = Ptr(OpenBody)

\* p starts with q
HasPrefix(p, q) == Len(p) >= Len(q) /\ SubSeq(p, 1, Len(q)) = q

\* C14: for every path p and root r, filePath(p) is "/"+r or starts with
\* "/"+r+"/", and has no empty, "." or ".." element; "../../etc" under root
\* "dropbox" gives "/dropbox/etc".
C14_FilePathStaysUnderRoot ==
    op = "filePath" =>
        LET r == <<"/">> \o RootChars(Deref(client).root)
            elems == SplitFrom(ret, 2, <<>>)
        IN /\ ret = r \/ HasPrefix(ret, r \o <<"/">>)
           /\ \A i \in DOMAIN elems : elems[i] \notin {<<>>, <<".">>, DotDot}
           /\ (args.p = DotDotEtc /\ Deref(client).root = "dropbox") =>
                 ret = <<"/", "d", "r", "o", "p", "b", "o", "x", "/", "e", "t", "c">>

\* C13: for every non-200 response handed to parseJSON the result is an
\* APIError whose Code is the HTTP status, also when the body is not JSON;
\* with an empty body its message is empty.
C13_ParseJSONKeepsStatus ==
    (op = "parseJSON" /\ args.resp.StatusCode # StatusOK) =>
        /\ err.kind = "APIError"
        /\ err.code = args.resp.StatusCode
        /\ args.resp.Body.kind = "empty" => err.msg = ""

EndpointOps == {"GetFile", "PutFile", "Metadata", "ChunkedUpload", "CommitChunkedUpload"}

\* An endpoint method was called and the HTTP client answered its request
\* with a response.
Answered == op \in EndpointOps /\ sent # <<>> /\ sent[1].reply.err = NoErr

\* The response the HTTP client gave to the request sent.
Answer == Response(sent[1].method, sent[1].uri, sent[1].params, sent[1].reply)

C18_BodiesDrainedAndClosed ==
    (op \in EndpointOps /\ body # Nil) => body = Ptr([drained |-> TRUE, closed |-> TRUE])

\* C19 as stated: every optional parameter, and locale, is in the signed
\* parameter set exactly when the caller supplied a non-default value
\* (non-empty string, positive number, true flag).
C19_OptionalParamsIffNonDefault ==
    /\ op \in EndpointOps => (Has(params, "locale") <=> pre.Locale # "")
    /\ op = "Metadata" =>
          /\ Has(params, "file_limit") <=> args.fileLimit > 0
          /\ Has(params, "hash") <=> args.hash # ""
          /\ Has(params, "list") <=> args.list
          /\ Has(params, "include_deleted") <=> args.deleted
          /\ Has(params, "rev") <=> args.rev # ""
    /\ op \in {"PutFile", "CommitChunkedUpload"} =>
          /\ Has(params, "overwrite") <=> args.overwrite
          /\ Has(params, "parent_rev") <=> args.parentRev # ""
    /\ op = "ChunkedUpload" =>
          /\ Has(params, "upload_id") <=> args.uploadId # ""
          /\ Has(params, "offset") <=> args.offset > 0

\* C19 (amended): an optional parameter is in the signed parameter set
\* exactly when the caller supplied a non-default value, with these
\* exceptions: Metadata sends list ("false") exactly when list is false;
\* CommitChunkedUpload always sends overwrite and upload_id; ChunkedUpload
\* sends offset exactly when upload_id is non-empty; locale is sent exactly
\* when Session.Locale is non-empty and the method is Metadata, PutFile or
\* CommitChunkedUpload.
C19_OptionalParamsAsBuilt ==
    /\ op \in EndpointOps =>
          (Has(params, "locale") <=>
              (pre.Locale # "" /\ op \in {"Metadata", "PutFile", "CommitChunkedUpload"}))
    /\ (op \in EndpointOps /\ Has(params, "locale")) => Get(params, "locale") = pre.Locale
    /\ op = "Metadata" =>
          /\ Has(params, "file_limit") <=> args.fileLimit > 0
          /\ Has(params, "hash") <=> args.hash # ""
          /\ Has(params, "list") <=> ~args.list
          /\ Has(params, "list") => Get(params, "list") = "false"
          /\ Has(params, "include_deleted") <=> args.deleted
          /\ Has(params, "rev") <=> args.rev # ""
    /\ op = "GetFile" => (Has(params, "rev") <=> args.rev # "")
    /\ op = "PutFile" =>
          /\ Has(params, "overwrite") <=> args.overwrite
          /\ Has(params, "parent_rev") <=> args.parentRev # ""
    /\ op = "CommitChunkedUpload" =>
          /\ Get(params, "overwrite") = FormatBool(args.overwrite)
          /\ Has(params, "overwrite") /\ Has(params, "upload_id")
          /\ Get(params, "upload_id") = args.uploadId
          /\ Has(params, "parent_rev") <=> args.parentRev # ""
    /\ op = "ChunkedUpload" =>
          /\ Has(params, "upload_id") <=> args.uploadId # ""
          /\ Has(params, "offset") <=> args.uploadId # ""
          /\ Has(params, "offset") => Get(params, "offset") = FormatInt(args.offset)

C19_Witness ==
    /\ op = "CommitChunkedUpload"
    /\ ~args.overwrite /\ args.uploadId = "" /\ args.parentRev = ""
    /\ Get(params, "overwrite") = "false"
    /\ Has(params, "upload_id") /\ ~Has(params, "parent_rev")
    /\ sent # <<>> /\ sent[1].params = params

\* C20: an endpoint method sends at most one request; a transport error
\* and the AuthorizationError of a 401 reach the caller as they are, and
\* so does the error parseJSON makes of any other response, except for
\* Metadata on 304 and ChunkedUpload on 400.
C20_OneRequestErrorsUnchanged ==
    op \in EndpointOps =>
        /\ Len(sent) <= 1
        /\ sent = <<>> => err \in {ErrNotAuthorized, ErrBadURL}
        /\ sent # <<>> =>
              LET cr == checkResponse(Answer, sent[1].reply.err) IN
              /\ cr.err # NoErr => err = cr.err
              /\ (/\ cr.err = NoErr
                  /\ op \in {"PutFile", "Metadata", "CommitChunkedUpload"}
                  /\ ~(op = "Metadata" /\ Answer.StatusCode = StatusNotModified)) =>
                    err = parseJSON(Answer, "Metadata", OpenBody).err
              /\ (/\ cr.err = NoErr
                  /\ op = "ChunkedUpload"
                  /\ Answer.StatusCode # StatusBadRequest) =>
                    err = parseJSON(Answer, "ChunkedUpload", OpenBody).err

C20_Witness ==
    /\ op \in EndpointOps
    /\ Len(sent) = 1
    /\ sent[1].reply.err = ErrTransport
    /\ err = ErrTransport

\* C17: an Authorized Session stays Authorized under every operation other
\* than Reset(), whether the operation succeeds or fails.
C17_AuthorizedUntilReset ==
    [][(AccessToken # Nil /\ op' # "Reset") => AccessToken' # Nil]_vars

C17_Witness ==
    /\ Authorized(pre)
    /\ op \in EndpointOps
    /\ err.kind = "AuthorizationError"
    /\ Authorized(Self)

\* The Session before the call had a request pair and no access pair.
WasRequestPending == pre.RequestToken # Nil /\ pre.AccessToken = Nil

\* C21: from a Session in RequestPending and for every provider reply,
\* GetAccessToken() and GetAccessTokenCallback(s.RequestToken, "") send the
\* same token request and end in the same Session with the same error.
C21_AccessTokenEntryPointsAgree ==
    /\ (op = "GetAccessToken" /\ WasRequestPending) =>
          /\ Len(sent) = 1
          /\ LET r == getAccessTokenCallback(pre, pre.RequestToken, "", sent[1].reply) IN
             /\ sent = r.sent
             /\ Self = r.s
             /\ err = r.err
             /\ outcome = r.outcome
    /\ (op = "GetAccessTokenCallback" /\ WasRequestPending
           /\ args.requestToken = pre.RequestToken /\ args.verifier = "") =>
          /\ Len(sent) = 1
          /\ LET r == getAccessToken(pre, sent[1].reply) IN
             /\ sent = r.sent
             /\ Self = r.s
             /\ err = r.err
             /\ outcome = r.outcome

C21_Witness ==
    /\ op = "GetAccessTokenCallback" /\ WasRequestPending
    /\ args.requestToken = pre.RequestToken /\ args.verifier = ""
    /\ err = NoErr
    /\ AccessToken = fromOauth(sent[1].reply.cred)
    /\ RequestToken = pre.RequestToken

CredentialOps ==
    {"GetRequestToken", "GetAuthorizeURL", "GetAccessToken", "GetAccessTokenCallback"}

\* C22: when GetRequestToken, GetAuthorizeURL, GetAccessToken or
\* GetAccessTokenCallback fails, the request pair and the access pair are
\* as they were before the call; no operation changes the consumer
\* key/secret.
C22_FailedCredentialOpChangesNothing ==
    /\ (op \in CredentialOps /\ (err # NoErr \/ outcome # Returned)) =>
          /\ RequestToken = pre.RequestToken
          /\ AccessToken = pre.AccessToken
    /\ OauthClient.Credentials = pre.OauthClient.Credentials

C22_Witness ==
    /\ op = "GetAuthorizeURL"
    /\ err = ErrTransport
    /\ Len(sent) = 1
    /\ pre.RequestToken = Nil /\ RequestToken = Nil
    /\ AccessToken = pre.AccessToken
====
